---- MODULE Spec2Model ----
(***************************************************************************)
(* git-mergex: the merge workflow of cmd/root.go as a state machine.       *)
(*                                                                         *)
(* One invocation of the program walks through runE one external command   *)
(* at a time (pc names the command about to be issued).  The repository    *)
(* the commands act on is part of the state; git's commands are operators  *)
(* on it.  Text (branch names, command output) is a sequence of tokens, a  *)
(* token standing for a substring; the string functions of the code        *)
(* (HasPrefix, TrimSpace, Contains, ToLower, ReplaceAll, Split, Sprintf)   *)
(* are operators on such sequences.                                        *)
(*                                                                         *)
(* A commit is the set of atomic changes it contains: a merge is the       *)
(* union, "ancestor of" is the subset relation.                            *)
(***************************************************************************)
EXTENDS Integers, Sequences, FiniteSets, TLC

\* ------------------------------------------------------------------ bounds
\* number of atomic changes a history can be made of
MaxAtoms == 2

Atoms == 1..MaxAtoms
Commits == SUBSET Atoms

\* ------------------------------------------------------------ text helpers
Space == {" ", "\n"}

\* strings.HasPrefix
HasPrefix(s, p) == Len(p) <= Len(s) /\ SubSeq(s, 1, Len(p)) = p

RECURSIVE TrimLeft(_)
TrimLeft(s) == IF s # <<>> /\ Head(s) \in Space THEN TrimLeft(Tail(s)) ELSE s

RECURSIVE TrimRight(_)
TrimRight(s) ==
    IF s # <<>> /\ s[Len(s)] \in Space THEN TrimRight(SubSeq(s, 1, Len(s) - 1)) ELSE s

\* strings.TrimSpace
TrimSpace(s) == TrimRight(TrimLeft(s))

\* strings.Contains(s, tok) for a substring that is one token
Contains(s, tok) == \E i \in 1..Len(s) : s[i] = tok

\* strings.ToLower: the only token of the model with an upper-case letter
\* that matters is the older spelling of git's "couldn't find remote ref"
LowerTok(t) == IF t = "Couldn't find remote ref" THEN "couldn't find remote ref" ELSE t

ToLower(s) == [i \in 1..Len(s) |-> LowerTok(s[i])]

RECURSIVE ReplaceAll(_, _)
\* strings.ReplaceAll(s, tok, "")
ReplaceAll(s, tok) ==
    IF s = <<>> THEN <<>>
    ELSE IF Head(s) = tok THEN ReplaceAll(Tail(s), tok)
    ELSE <<Head(s)>> \o ReplaceAll(Tail(s), tok)

RECURSIVE SplitFrom(_, _)
\* strings.Split(s, "\n"): acc is the line being read
SplitFrom(s, acc) ==
    IF s = <<>> THEN <<acc>>
    ELSE IF Head(s) = "\n" THEN <<acc>> \o SplitFrom(Tail(s), <<>>)
    ELSE SplitFrom(Tail(s), Append(acc, Head(s)))

Split(s) == SplitFrom(s, <<>>)

\* fmt.Sprintf("%s/%s", a, b)
SprintfSlash(a, b) == a \o <<"/">> \o b

\* --------------------------------------------------------------- constants
remote == <<"origin">>
mergex == <<"_mergex">>

remoteBranch(b) == SprintfSlash(remote, b)

mergexBranch(b) == SprintfSlash(mergex, b)

\* ------------------------------------------------------- the name universe
\* branches the user may have checked out
CurNames ==
    { <<"feature">>, <<"master">>, <<"release">>, <<"release", "-1">> }

\* what the user may pass as <branch|commit>: a branch of the remote, a ref
\* spelled with the remote's name in front (not on the remote), a tag, and a
\* name the remote does not have
Main == <<"main">>
OriginMain == <<"origin", "-main">>
Tag == <<"v1">>
Missing == <<"topic">>
Targets == {Main, OriginMain, Tag, Missing}

\* other local branches the user may have made: "_mergex" (which blocks the
\* directory _mergex/ in the ref store) and "_mergextmp"
OtherNames == { <<"_mergex">>, <<"_mergex", "tmp">> }

\* git lists branches sorted by name
BranchOrder ==
    << <<"_mergex">>,
       <<"_mergex", "/", "feature">>, <<"_mergex", "/", "master">>,
       <<"_mergex", "/", "release">>, <<"_mergex", "/", "release", "-1">>,
       <<"_mergex", "tmp">>,
       <<"feature">>, <<"master">>, <<"release">>, <<"release", "-1">> >>

NoMerge == [on |-> FALSE]
Merging(h, res) == [on |-> TRUE, head |-> h, resolved |-> res]

\* ------------------------------------------------------- the repository
\* A repository r is a record: refs (local branch -> commit, the current
\* branch included), tracking (remote-tracking branch -> commit), merge (the
\* merge in progress, MERGE_HEAD) and dirty (uncommitted tracked changes).
Put(f, k, v) == [x \in DOMAIN f \cup {k} |-> IF x = k THEN v ELSE f[x]]

Drop(f, ks) == [x \in DOMAIN f \ ks |-> f[x]]

Resolvable(r, ref) == ref \in DOMAIN r.refs \/ ref \in DOMAIN r.tracking

Resolve(r, ref) == IF ref \in DOMAIN r.refs THEN r.refs[ref] ELSE r.tracking[ref]

\* a ref "a" and a ref "a/b" cannot both exist
DirClash(a, b) == HasPrefix(b, a \o <<"/">>) \/ HasPrefix(a, b \o <<"/">>)

\* paths a merge may report
Files == {"a.txt", "up to date"}

\* git rev-parse --abbrev-ref HEAD
GitRevParse(c) == c \o <<"\n">>

\* git merge --abort
GitMergeAbort(r) ==
    IF r.merge.on THEN [ok |-> TRUE, repo |-> [r EXCEPT !.merge = NoMerge]]
    ELSE [ok |-> FALSE, repo |-> r]

\* git reset --hard <ref>
GitResetHard(r, c, ref) ==
    IF Resolvable(r, ref)
    THEN [ok |-> TRUE,
          repo |-> [r EXCEPT !.refs = Put(r.refs, c, Resolve(r, ref)),
                             !.merge = NoMerge, !.dirty = FALSE]]
    ELSE [ok |-> FALSE, repo |-> r]

\* git branch -f <name>
GitBranchForce(r, c, name) ==
    IF name = c \/ \E n \in DOMAIN r.refs : DirClash(n, name)
    THEN [ok |-> FALSE, repo |-> r]
    ELSE [ok |-> TRUE, repo |-> [r EXCEPT !.refs = Put(r.refs, name, r.refs[c])]]

\* git branch -D <names>
GitBranchDelete(r, c, names) ==
    LET gone == {n \in names : n \in DOMAIN r.refs /\ n # c}
    IN  [ok |-> gone = names, repo |-> [r EXCEPT !.refs = Drop(r.refs, gone)]]

\* git merge --continue; editor: the commit-message editor was left normally
GitMergeContinue(r, c, editor) ==
    IF r.merge.on /\ r.merge.resolved /\ editor
    THEN [ok |-> TRUE,
          repo |-> [r EXCEPT !.refs = Put(r.refs, c, r.refs[c] \cup r.merge.head),
                             !.merge = NoMerge]]
    ELSE [ok |-> FALSE, repo |-> r]

\* git status --porcelain -uno
GitStatus(r) ==
    IF r.merge.on /\ ~r.merge.resolved THEN <<"UU ", "a.txt", "\n">>
    ELSE IF r.merge.on \/ r.dirty THEN <<" ", "M ", "a.txt", "\n">>
    ELSE <<>>

\* git merge --no-ff [--no-commit | -m msg] <ref>; how: what the contents of
\* the two histories make of a true merge; file: a path the merge touches
GitMerge(r, c, ref, noCommit, how, file) ==
    IF r.merge.on
    THEN [ok |-> FALSE, repo |-> r,
          out |-> <<"fatal: You have not concluded your merge (MERGE_HEAD exists).", "\n">>]
    ELSE IF ~Resolvable(r, ref)
    THEN [ok |-> FALSE, repo |-> r, out |-> <<"merge: not something we can merge", "\n">>]
    ELSE LET H == r.refs[c]
             S == Resolve(r, ref)
         IN  IF S \subseteq H
             THEN [ok |-> TRUE, repo |-> r, out |-> <<"Already ", "up to date", ".", "\n">>]
             ELSE IF how = "overwritten" /\ r.dirty
             THEN [ok |-> FALSE, repo |-> r,
                   out |-> <<"error: Your local changes would be overwritten by merge: ",
                             file, "\n">>]
             ELSE IF how = "conflict" /\ ~(H \subseteq S)
             THEN [ok |-> FALSE, repo |-> [r EXCEPT !.merge = Merging(S, FALSE)],
                   out |-> <<"CONFLICT (content): Merge conflict in ", file, "\n",
                             "Automatic merge failed; fix conflicts and then commit the result.",
                             "\n">>]
             ELSE IF noCommit
             THEN [ok |-> TRUE, repo |-> [r EXCEPT !.merge = Merging(S, TRUE)],
                   out |-> <<"Automatic merge went well",
                             "; stopped before committing as requested", "\n">>]
             ELSE [ok |-> TRUE, repo |-> [r EXCEPT !.refs = Put(r.refs, c, H \cup S)],
                   out |-> <<"Merge made by the 'ort' strategy.", "\n", " ", file,
                             " | 2 +-", "\n">>]

\* git fetch -f origin <target>; net: the remote can be reached; old: a git
\* that spells the missing-ref message with a capital
GitFetch(r, srv, target, net, old) ==
    IF ~net
    THEN [ok |-> FALSE, repo |-> r, out |-> <<"fatal: ", "unable to access", "\n">>]
    ELSE IF target = Main
    THEN [ok |-> TRUE, repo |-> [r EXCEPT !.tracking = Put(r.tracking, remoteBranch(Main), srv)],
          out |-> <<"From origin", "\n">>]
    ELSE IF target = Tag
    THEN [ok |-> TRUE, repo |-> r, out |-> <<"From origin", "\n">>]
    ELSE [ok |-> FALSE, repo |-> r,
          out |-> <<"fatal: ",
                    IF old THEN "Couldn't find remote ref" ELSE "couldn't find remote ref",
                    " "
                  >> \o target \o <<"\n">>]

RECURSIVE BranchLines(_, _, _)
\* git branch: one line per local branch, the current one marked with "*"
BranchLines(r, c, i) ==
    IF i > Len(BranchOrder) THEN <<>>
    ELSE LET n == BranchOrder[i]
         IN  (IF n \in DOMAIN r.refs
              THEN (IF n = c THEN <<"*", " ">> ELSE <<" ", " ">>) \o n \o <<"\n">>
              ELSE <<>>) \o BranchLines(r, c, i + 1)

GitBranchList(r, c) == BranchLines(r, c, 1)

\* ------------------------------------------------------------ the program
VARIABLES
    cur,        \* the branch checked out
    server,     \* the commit of branch main on the remote
    repo,       \* the local repository
    pc,         \* where the invocation is: the next command of runE
    args,       \* positional arguments (cobra.MaximumNArgs(1))
    dryRun, abort, cont, remove,    \* the flags of command
    branch,     \* runE's local: the result of headBranch()
    branches,   \* runE's local in --remove: the branches to delete
    err,        \* what runE returns (Nil: success)
    printed,    \* what the invocation wrote to standard output, in order
    issued,     \* the external commands the invocation ran, in order
    exitCode,   \* <<the exit status of the process>>, once it ended
    pre,        \* the current branch's commit when the invocation began
    before,     \* the repository when the invocation began
    last        \* how the previous invocation ended, if nothing happened since

repoVars == <<cur, server, repo>>
flagVars == <<args, dryRun, abort, cont, remove>>
vars == <<cur, server, repo, pc, args, dryRun, abort, cont, remove, branch, branches,
          err, printed, issued, exitCode, pre, before, last>>

Nil == <<>>
NoBranch == <<>>
NoExit == <<>>
NoLast == [kind |-> "none"]

\* an external command as the log keeps it: what it was given, whether it
\* exited with status 0, what it wrote, and (for the trial merge) what the
\* contents of the two histories were like
CmdEnv(name, arg, ok, o, e) == [cmd |-> name, arg |-> arg, ok |-> ok, out |-> o, env |-> e]

CmdOut(name, arg, ok, o) == CmdEnv(name, arg, ok, o, <<>>)

Cmd(name, arg, ok) == CmdOut(name, arg, ok, <<>>)

GitPath == <<"/usr/bin/", "git">>
ExitStatus == "exit status 1"

RECURSIVE boolSum(_)
boolSum(items) ==
    IF items = <<>> THEN 0
    ELSE (IF Head(items) THEN 1 ELSE 0) + boolSum(Tail(items))

UsageErrorNoRemove(n, a, c, r) == n + boolSum(<<a, c>>) # 1

\* runE's first test: true when the usage error is returned
UsageError(n, a, c, r) == n + boolSum(<<a, c, r>>) # 1

UsageText ==
    <<"only one of <branch|commit>, --abort, --continue and --remove can be specified">>

ForbiddenMasterOnly(b) == b = <<"master">>

\* headBranch's test on the branch name
Forbidden(b) == b = <<"master">> \/ HasPrefix(b, <<"release">>)

ForbiddenText(b) == <<"branch ">> \o b \o <<" is forbidden">>

RECURSIVE FromGit(_)
\* s[strings.Index(s, "git"):]
FromGit(s) ==
    IF s = <<>> \/ Head(s) = "git" THEN s ELSE FromGit(Tail(s))

\* commandError: c is the command line after the executable's path
commandError(c, e) ==
    LET s == GitPath \o c
    IN  (IF Contains(s, "git") THEN FromGit(s) ELSE s) \o <<": ", e>>

TheTarget == args[1]
Staging == mergexBranch(branch)

Init ==
    /\ cur \in CurNames
    /\ server = {}
    /\ repo = [refs |-> [n \in {cur} |-> {}], tracking |-> [n \in {} |-> {}],
               merge |-> NoMerge, dirty |-> FALSE]
    /\ pc = "idle"
    /\ args = <<>>
    /\ dryRun = FALSE /\ abort = FALSE /\ cont = FALSE /\ remove = FALSE
    /\ branch = NoBranch
    /\ branches = <<>>
    /\ err = Nil
    /\ printed = <<>>
    /\ issued = <<>>
    /\ exitCode = NoExit
    /\ pre = repo.refs[cur]
    /\ before = repo
    /\ last = NoLast

\* ---------------------------------------------------------- the user's side
\* What happens to the repository between two invocations is not the
\* program's doing: the user commits, edits, resolves conflicts and makes
\* branches, and the remote moves on.  During an invocation nothing else
\* touches the repository.
Quiet == pc = "idle"

Forget ==
    /\ last' = NoLast
    /\ pre' = repo'.refs[cur]
    /\ before' = repo'
    /\ UNCHANGED <<cur, pc, flagVars, branch, branches, err, printed, issued, exitCode>>

\* the changes somebody can add to a history h: the user's work starts from
\* the last atom, the remote's from the first
Highest(h) == {a \in Atoms \ h : \A b \in Atoms \ h : b <= a}

Lowest(h) == {a \in Atoms \ h : \A b \in Atoms \ h : a <= b}

\* the user commits a change on the current branch
UserCommit ==
    /\ Quiet /\ ~repo.merge.on
    /\ \E a \in Highest(repo.refs[cur]) :
          repo' = [repo EXCEPT !.refs = Put(repo.refs, cur, repo.refs[cur] \cup {a}),
                               !.dirty = FALSE]
    /\ UNCHANGED server
    /\ Forget

\* the user edits a tracked file
UserEdit ==
    /\ Quiet /\ ~repo.dirty
    /\ repo' = [repo EXCEPT !.dirty = TRUE]
    /\ UNCHANGED server
    /\ Forget

\* the user resolves the conflicts of the merge in progress (git add)
UserResolve ==
    /\ Quiet /\ repo.merge.on /\ ~repo.merge.resolved
    /\ repo' = [repo EXCEPT !.merge = Merging(repo.merge.head, TRUE)]
    /\ UNCHANGED server
    /\ Forget

\* the user creates or deletes one of the other branches
UserBranch ==
    /\ Quiet
    /\ \E n \in OtherNames :
          IF n \in DOMAIN repo.refs
          THEN repo' = [repo EXCEPT !.refs = Drop(repo.refs, {n})]
          ELSE /\ \A m \in DOMAIN repo.refs : ~DirClash(m, n)
               /\ repo' = [repo EXCEPT !.refs = Put(repo.refs, n, {})]
    /\ UNCHANGED server
    /\ Forget

\* somebody pushes a change to main on the remote
RemotePush ==
    /\ Quiet
    /\ \E a \in Lowest(server) : server' = server \cup {a}
    /\ UNCHANGED repo
    /\ Forget

\* ------------------------------------------------------------- invocation
\* the note of the previous invocation is kept for the invocation it is
\* compared with: an --abort after a stopped merge, a dry run of the same
\* target after a dry run
Remember(l, as, d, a, c, r) ==
    IF l.kind = "stopped" /\ as = <<>> /\ a /\ ~c /\ ~r THEN l
    ELSE IF l.kind = "dry" /\ as = <<l.target>> /\ d /\ ~a /\ ~c /\ ~r THEN l
    ELSE NoLast

\* NewCommand and cobra's parsing: the flags and at most one argument are set
Invoke ==
    /\ Quiet
    /\ args' \in {<<>>} \cup {<<t>> : t \in Targets}
    /\ dryRun' \in BOOLEAN /\ abort' \in BOOLEAN /\ cont' \in BOOLEAN /\ remove' \in BOOLEAN
    /\ pc' = "runE"
    /\ branch' = NoBranch /\ branches' = <<>>
    /\ err' = Nil /\ printed' = <<>> /\ issued' = <<>> /\ exitCode' = NoExit
    /\ pre' = repo.refs[cur]
    /\ before' = repo
    /\ last' = Remember(last, args', dryRun', abort', cont', remove')
    /\ UNCHANGED repoVars

\* what a step leaves alone when it only moves on
Keep == UNCHANGED <<cur, server, flagVars, exitCode, pre, before, last>>

Return(e) == err' = e /\ pc' = "exit"

Goto(l) == err' = Nil /\ pc' = l

\* runE: the mode check
Validate ==
    /\ pc = "runE"
    /\ IF UsageError(Len(args), abort, cont, remove) THEN Return(UsageText) ELSE Goto("lookPath")
    /\ UNCHANGED <<repo, branch, branches, printed, issued>>
    /\ Keep

\* exec.LookPath("git")
LookPath ==
    /\ pc = "lookPath"
    /\ \E ok \in BOOLEAN :
          /\ issued' = Append(issued, Cmd("lookpath", <<>>, ok))
          /\ IF ok THEN Goto("headBranch")
             ELSE Return(<<"exec: ", "git", ": executable file not found in $PATH">>)
    /\ UNCHANGED <<repo, branch, branches, printed>>
    /\ Keep

\* where runE goes once the branch is read
Dispatch ==
    IF abort THEN "abortMerge"
    ELSE IF cont THEN "contMerge"
    ELSE IF remove THEN "removeList"
    ELSE "fetch"

\* headBranch()
HeadBranch ==
    /\ pc = "headBranch"
    /\ \E ok \in BOOLEAN :
          /\ issued' = Append(issued, Cmd("rev-parse", <<>>, ok))
          /\ IF ~ok
             THEN /\ branch' = <<>>
                  /\ Return(commandError(<<" rev-parse --abbrev-ref HEAD">>, ExitStatus))
             ELSE LET b == TrimSpace(GitRevParse(cur))
                  IN  /\ branch' = b
                      /\ IF Forbidden(b) THEN Return(ForbiddenText(b)) ELSE Goto(Dispatch)
    /\ UNCHANGED <<repo, branches, printed>>
    /\ Keep

\* ---------------------------------------------------------------- --abort
\* abortMerge(): the result of git merge --abort is dropped
abortMerge(r) == GitMergeAbort(r).repo

deleteBranchNothing(r, c, name) == r

\* deleteBranch(): the result of git branch -D is dropped
deleteBranch(r, c, name) == GitBranchDelete(r, c, {name}).repo

AbortMergeStep ==
    /\ pc = "abortMerge"
    /\ issued' = Append(issued, Cmd("merge-abort", <<>>, GitMergeAbort(repo).ok))
    /\ repo' = abortMerge(repo)
    /\ Goto("abortReset")
    /\ UNCHANGED <<branch, branches, printed>>
    /\ Keep

AbortResetOkIgnored(ok) == TRUE

\* runE after the reset of --abort: go on only when it succeeded
AbortResetOk(ok) == ok

AbortReset ==
    /\ pc = "abortReset"
    /\ LET res == GitResetHard(repo, cur, Staging)
       IN  /\ issued' = Append(issued, Cmd("reset", Staging, res.ok))
           /\ repo' = res.repo
           /\ IF AbortResetOk(res.ok) THEN Goto("abortDelete")
              ELSE Return(commandError(<<" reset --hard ">> \o Staging, ExitStatus))
    /\ UNCHANGED <<branch, branches, printed>>
    /\ Keep

AbortDelete ==
    /\ pc = "abortDelete"
    /\ issued' = Append(issued, Cmd("branch-delete", <<Staging>>,
                                    GitBranchDelete(repo, cur, {Staging}).ok))
    /\ repo' = deleteBranch(repo, cur, Staging)
    /\ Return(Nil)
    /\ UNCHANGED <<branch, branches, printed>>
    /\ Keep

\* ------------------------------------------------------------- --continue
ContMergePropagates ==
    /\ pc = "contMerge"
    /\ \E editor \in BOOLEAN :
          LET res == GitMergeContinue(repo, cur, editor)
          IN  /\ issued' = Append(issued, Cmd("merge-continue", <<>>, res.ok))
              /\ repo' = res.repo
              /\ IF res.ok THEN Goto("contDelete")
                 ELSE Return(commandError(<<" merge --continue">>, ExitStatus))
    /\ UNCHANGED <<branch, branches, printed>>
    /\ Keep

\* git merge --continue on the user's terminal; its error is dropped
ContMerge ==
    /\ pc = "contMerge"
    /\ \E editor \in BOOLEAN :
          LET res == GitMergeContinue(repo, cur, editor)
          IN  /\ issued' = Append(issued, Cmd("merge-continue", <<>>, res.ok))
              /\ repo' = res.repo
    /\ Goto("contDelete")
    /\ UNCHANGED <<branch, branches, printed>>
    /\ Keep

ContDelete ==
    /\ pc = "contDelete"
    /\ issued' = Append(issued, Cmd("branch-delete", <<Staging>>,
                                    GitBranchDelete(repo, cur, {Staging}).ok))
    /\ repo' = deleteBranch(repo, cur, Staging)
    /\ Return(Nil)
    /\ UNCHANGED <<branch, branches, printed>>
    /\ Keep

\* ---------------------------------------------------------------- --remove
RECURSIVE MergexLines(_)
\* the loop over the lines of git branch: the trimmed, non-empty lines that
\* start with "_mergex"
MergexLines(lines) ==
    IF lines = <<>> THEN <<>>
    ELSE LET b == TrimSpace(Head(lines))
         IN  (IF Len(b) > 0 /\ HasPrefix(b, mergex) THEN <<b>> ELSE <<>>)
                 \o MergexLines(Tail(lines))

Range(q) == {q[i] : i \in 1..Len(q)}

RemoveList ==
    /\ pc = "removeList"
    /\ \E ok \in BOOLEAN :
          /\ issued' = Append(issued, Cmd("branch-list", <<>>, ok))
          /\ IF ~ok
             THEN /\ branches' = <<>>
                  /\ Return(commandError(<<" branch">>, ExitStatus))
             ELSE LET bs == MergexLines(Split(GitBranchList(repo, cur)))
                  IN  /\ branches' = bs
                      /\ IF Len(bs) > 0 THEN Goto("removeDelete") ELSE Return(Nil)
    /\ UNCHANGED <<repo, branch, printed>>
    /\ Keep

\* rmCmd: git branch -D with all the branches; lp: the second LookPath
RemoveDelete ==
    /\ pc = "removeDelete"
    /\ \E lp \in BOOLEAN :
          LET res == IF lp THEN GitBranchDelete(repo, cur, Range(branches))
                     ELSE [ok |-> FALSE, repo |-> repo]
          IN  /\ issued' = issued \o <<Cmd("lookpath", <<>>, lp),
                                       Cmd("branch-delete", branches, res.ok)>>
              /\ repo' = res.repo
    /\ Return(Nil)
    /\ UNCHANGED <<branch, branches, printed>>
    /\ Keep

\* ------------------------------------------------------------------- merge
HintText(t) ==
    <<"it seems that the branch '">> \o t \o <<"' should not start with '">> \o remote
        \o <<"'", "\n">>

NeedsHintCaseSensitive(o, t) ==
    Contains(o, "couldn't find remote ref") /\ HasPrefix(t, remote)

\* the test that decides whether the hint is printed after a failed fetch
NeedsHint(o, t) ==
    Contains(ToLower(o), "couldn't find remote ref") /\ HasPrefix(t, remote)

Fetch ==
    /\ pc = "fetch"
    /\ \E net \in BOOLEAN, old \in BOOLEAN :
          LET res == GitFetch(repo, server, TheTarget, net, old)
          IN  /\ issued' = Append(issued, CmdOut("fetch", TheTarget, res.ok, res.out))
              /\ repo' = res.repo
              /\ IF ~res.ok
                 THEN /\ printed' = printed \o <<res.out>>
                                      \o (IF NeedsHint(res.out, TheTarget)
                                          THEN <<HintText(TheTarget)>> ELSE <<>>)
                      /\ Return(commandError(<<" fetch -f ">> \o remote \o <<" ">> \o TheTarget,
                                             ExitStatus))
                 ELSE /\ printed' = printed
                      /\ Goto(IF dryRun THEN "dryMerge" ELSE "status")
    /\ UNCHANGED <<branch, branches>>
    /\ Keep

MergeHows == {"clean", "conflict", "overwritten"}

\* --dry-run: the trial merge
DryMerge ==
    /\ pc = "dryMerge"
    /\ \E how \in MergeHows, file \in Files :
          LET res == GitMerge(repo, cur, remoteBranch(TheTarget), TRUE, how, file)
          IN  /\ issued' = Append(issued,
                                   CmdEnv("merge", remoteBranch(TheTarget), res.ok, res.out,
                                          <<how, file>>))
              /\ repo' = res.repo
              /\ printed' = Append(printed,
                                   ReplaceAll(res.out, "; stopped before committing as requested"))
    /\ Goto("dryAbort")
    /\ UNCHANGED <<branch, branches>>
    /\ Keep

DryAbort ==
    /\ pc = "dryAbort"
    /\ issued' = Append(issued, Cmd("merge-abort", <<>>, GitMergeAbort(repo).ok))
    /\ repo' = abortMerge(repo)
    /\ Return(Nil)
    /\ UNCHANGED <<branch, branches, printed>>
    /\ Keep

StatusBlocksNever(outs) == FALSE

\* the test on the trimmed status output
StatusBlocks(outs) == Len(outs) > 0

\* git status: its error is dropped, a failed status has no output
Status ==
    /\ pc = "status"
    /\ \E ok \in BOOLEAN :
          LET o == IF ok THEN GitStatus(repo) ELSE <<>>
              outs == TrimSpace(o)
          IN  /\ issued' = Append(issued, CmdOut("status", <<>>, ok, o))
              /\ IF StatusBlocks(outs)
                 THEN Return(<<"Changes not committed before merge:", "\n">> \o outs)
                 ELSE Goto("branch")
    /\ UNCHANGED <<repo, branch, branches, printed>>
    /\ Keep

BranchOkIgnored(ok) == TRUE

\* runE after git branch -f: go on only when it succeeded
BranchOk(ok) == ok

BranchForce ==
    /\ pc = "branch"
    /\ LET res == GitBranchForce(repo, cur, Staging)
       IN  /\ issued' = Append(issued, Cmd("branch-create", Staging, res.ok))
           /\ repo' = res.repo
           /\ IF BranchOk(res.ok) THEN Goto("reset")
              ELSE Return(commandError(<<" branch -f ">> \o Staging, ExitStatus))
    /\ UNCHANGED <<branch, branches, printed>>
    /\ Keep

\* runE after git reset --hard: go on only when it succeeded
ResetOk(ok) == ok

ResetHard ==
    /\ pc = "reset"
    /\ LET res == GitResetHard(repo, cur, remoteBranch(TheTarget))
       IN  /\ issued' = Append(issued, Cmd("reset", remoteBranch(TheTarget), res.ok))
           /\ repo' = res.repo
           /\ IF ResetOk(res.ok) THEN Goto("merge")
              ELSE Return(commandError(<<" reset --hard ">> \o remoteBranch(TheTarget),
                                       ExitStatus))
    /\ UNCHANGED <<branch, branches, printed>>
    /\ Keep

DeleteAfterMergeAlways(ok) == TRUE

\* the staging branch is deleted when the merge returned no error
DeleteAfterMerge(ok) == ok

MergePrintRaw(outs, t) == outs

\* what runE prints for the merge output
MergePrint(outs, t) ==
    IF Contains(outs, "up to date") THEN <<"Fast-forward to ">> \o t \o <<"\n">> ELSE outs

MergeReturnFailure(ok) == IF ok THEN Nil ELSE <<"git", " merge", ": ", ExitStatus>>

\* what runE returns after the merge step
MergeReturn(ok) == Nil

\* the merge of the staging branch, the deletion that follows a success,
\* and the message
Merge ==
    /\ pc = "merge"
    /\ \E how \in MergeHows, file \in Files :
          LET res == GitMerge(repo, cur, Staging, FALSE, how, file)
              del == GitBranchDelete(res.repo, cur, {Staging})
          IN  /\ IF DeleteAfterMerge(res.ok)
                 THEN /\ issued' = issued \o <<CmdOut("merge", Staging, res.ok, res.out),
                                               Cmd("branch-delete", <<Staging>>, del.ok)>>
                      /\ repo' = deleteBranch(res.repo, cur, Staging)
                 ELSE /\ issued' = Append(issued, CmdOut("merge", Staging, res.ok, res.out))
                      /\ repo' = res.repo
              /\ printed' = Append(printed, MergePrint(res.out, TheTarget))
              /\ Return(MergeReturn(res.ok))
    /\ UNCHANGED <<branch, branches>>
    /\ Keep

\* ------------------------------------------------------------------ the end
HasCmd(q, name, ok) == \E i \in 1..Len(q) : q[i].cmd = name /\ q[i].ok = ok

Issued(name) == \E i \in 1..Len(issued) : issued[i].cmd = name

\* Execute: the error is printed; Execute returns nothing and does not exit,
\* so the process ends with status 0
Execute ==
    /\ pc = "exit"
    /\ printed' = IF err # Nil THEN Append(printed, err) ELSE printed
    /\ exitCode' = <<0>>
    /\ pc' = "done"
    /\ UNCHANGED <<repoVars, flagVars, branch, branches, err, issued, pre, before, last>>

\* the process is gone: nothing of the invocation is left but the repository
\* (and, for the properties, the note of how it ended)
Finish ==
    /\ pc = "done"
    /\ pc' = "idle"
    /\ args' = <<>>
    /\ dryRun' = FALSE /\ abort' = FALSE /\ cont' = FALSE /\ remove' = FALSE
    /\ branch' = NoBranch /\ branches' = <<>>
    /\ err' = Nil /\ printed' = <<>> /\ issued' = <<>> /\ exitCode' = NoExit
    /\ pre' = repo.refs[cur]
    /\ before' = repo
    /\ last' = IF Len(args) = 1 /\ ~abort /\ ~cont /\ ~remove /\ ~dryRun
                  /\ HasCmd(issued, "merge", FALSE)
               THEN [kind |-> "stopped", pre |-> pre]
               ELSE IF Len(args) = 1 /\ ~abort /\ ~cont /\ ~remove /\ dryRun
                       /\ Issued("merge")
               THEN [kind |-> "dry", target |-> args[1], printed |-> printed,
                     env |-> issued[Len(issued) - 1].env]
               ELSE NoLast
    /\ UNCHANGED repoVars

User == UserCommit \/ UserEdit \/ UserResolve \/ UserBranch \/ RemotePush

Next ==
    \/ User
    \/ Invoke \/ Validate \/ LookPath \/ HeadBranch
    \/ AbortMergeStep \/ AbortReset \/ AbortDelete
    \/ ContMerge \/ ContDelete
    \/ RemoveList \/ RemoveDelete
    \/ Fetch \/ DryMerge \/ DryAbort
    \/ Status \/ BranchForce \/ ResetHard \/ Merge
    \/ Execute \/ Finish

Spec == Init /\ [][Next]_vars

\* ------------------------------------------------------------ properties
\* the modes, read off the command line
NArgs == Len(args)
NonDryMerge == NArgs = 1 /\ ~abort /\ ~cont /\ ~remove /\ ~dryRun
AnyMerge == NArgs = 1 /\ ~abort /\ ~cont /\ ~remove
AbortMode == NArgs = 0 /\ abort /\ ~cont /\ ~remove
ContMode == NArgs = 0 /\ ~abort /\ cont /\ ~remove
Ended == pc \in {"exit", "done"}

\* the staging branch of the branch checked out
StagingOfCur == <<"_mergex", "/">> \o cur
StagingExists == StagingOfCur \in DOMAIN repo.refs
Tip == repo.refs[cur]

Mutating ==
    {"fetch", "merge", "merge-abort", "merge-continue", "reset", "branch-create",
     "branch-delete"}

\* C1: in a non-dry-run Merge every hard reset comes after a successful
\* creation of the staging branch of the current branch, and once the reset
\* to origin/<targetRef> has been done the staging branch exists and points
\* at the commit the current branch had before the Merge.
C1_ResetAfterStaging ==
    NonDryMerge =>
        /\ \A i \in 1..Len(issued) :
              issued[i].cmd = "reset" =>
                  /\ issued[i].arg = <<"origin", "/">> \o args[1]
                  /\ \E j \in 1..(i - 1) :
                        /\ issued[j].cmd = "branch-create"
                        /\ issued[j].arg = StagingOfCur
                        /\ issued[j].ok
        /\ pc = "merge" => StagingExists /\ repo.refs[StagingOfCur] = pre

C1_Witness ==
    NonDryMerge /\ pc = "merge" /\ HasCmd(issued, "reset", TRUE) /\ Tip # pre

\* C2: an Abort that follows at once a non-dry-run Merge stopped by a failed
\* merge step (git still installed, the branch still readable) succeeds,
\* puts the current branch back on the commit it had before the Merge, leaves
\* no merge in progress and leaves the staging branch deleted.
C2_AbortRestores ==
    (pc = "done" /\ AbortMode /\ last.kind = "stopped" /\ HasCmd(issued, "rev-parse", TRUE)) =>
        /\ err = <<>>
        /\ Tip = last.pre
        /\ ~repo.merge.on
        /\ ~StagingExists

C2_Witness ==
    /\ pc = "done" /\ AbortMode /\ last.kind = "stopped" /\ HasCmd(issued, "rev-parse", TRUE)
    /\ HasCmd(issued, "merge-abort", TRUE)
    /\ HasCmd(issued, "reset", TRUE)
    /\ Tip = last.pre /\ Tip # {}

\* C3: when git status reports uncommitted tracked changes, a non-dry-run
\* Merge returns "Changes not committed before merge" followed by the trimmed
\* status output, and creates no staging branch, resets nothing, merges
\* nothing and deletes no branch.
C3_DirtyStops ==
    NonDryMerge =>
        \A i \in 1..Len(issued) :
            (issued[i].cmd = "status" /\ TrimSpace(issued[i].out) # <<>>) =>
                /\ Ended
                /\ err = <<"Changes not committed before merge:", "\n">>
                             \o TrimSpace(issued[i].out)
                /\ \A j \in 1..Len(issued) :
                      issued[j].cmd \notin {"branch-create", "reset", "merge", "branch-delete"}

C3_Witness ==
    /\ NonDryMerge /\ pc = "done" /\ repo.dirty /\ ~repo.merge.on
    /\ \E i \in 1..Len(issued) : issued[i].cmd = "status" /\ issued[i].out # <<>>
    /\ err # <<>>

\* the names the workflow must refuse
ForbiddenName(n) == n = <<"master">> \/ (Len(n) >= 1 /\ n[1] = "release")

\* C4: on master and on every branch whose name starts with release, Merge
\* (dry-run or not), Abort and Continue issue no mutating external command,
\* and once the branch name has been read they fail with "branch <name> is
\* forbidden".
C4_ForbiddenBranch ==
    (ForbiddenName(cur) /\ (AnyMerge \/ AbortMode \/ ContMode)) =>
        /\ \A i \in 1..Len(issued) : issued[i].cmd \notin Mutating
        /\ (Ended /\ HasCmd(issued, "rev-parse", TRUE)) =>
              err = <<"branch ">> \o cur \o <<" is forbidden">>

C4_Witness ==
    /\ cur = <<"release", "-1">> /\ ContMode /\ pc = "done"
    /\ HasCmd(issued, "rev-parse", TRUE)
    /\ err = <<"branch ", "release", "-1", " is forbidden">>

\* the number of modes chosen on the command line
ModeCount ==
    NArgs + (IF abort THEN 1 ELSE 0) + (IF cont THEN 1 ELSE 0) + (IF remove THEN 1 ELSE 0)

Started == pc \notin {"idle", "runE"}

\* C5: with zero or one positional argument, whenever the number of
\* arguments plus mode flags is not exactly 1 the invocation returns the usage
\* error and issues no external command at all; whenever it is exactly 1 the
\* usage error is not returned.
C5_Usage ==
    Started =>
        /\ ModeCount # 1 => (Ended /\ err = UsageText /\ issued = <<>>)
        /\ ModeCount = 1 => err # UsageText

C5_Witness == pc = "done" /\ NArgs = 1 /\ remove /\ ~abort /\ ~cont /\ err = UsageText

C5_WitnessNone == pc = "done" /\ ModeCount = 0 /\ err = UsageText /\ issued = <<>>

\* C6: an invocation that sets --dry-run together with --abort, --continue
\* or --remove fails with the usage error before any external command runs.
C6_DryRunExclusive ==
    (Started /\ dryRun /\ (abort \/ cont \/ remove)) => (err = UsageText /\ issued = <<>>)

\* C7: at the end of a non-dry-run Merge that reached the merge step, the
\* staging branch is gone if and only if the merge command exited with
\* status 0; after a merge command that failed it still exists and points at
\* the commit the current branch had before the Merge.
C7_StagingDeletedIffMerged ==
    (NonDryMerge /\ Ended /\ Issued("merge")) =>
        /\ ~StagingExists <=> HasCmd(issued, "merge", TRUE)
        /\ HasCmd(issued, "branch-delete", TRUE) <=> HasCmd(issued, "merge", TRUE)
        /\ HasCmd(issued, "merge", FALSE) =>
              (StagingExists /\ repo.refs[StagingOfCur] = pre)

C7_Witness ==
    /\ NonDryMerge /\ pc = "done" /\ HasCmd(issued, "merge", FALSE)
    /\ StagingExists /\ repo.refs[StagingOfCur] = pre /\ Tip # pre

C7_WitnessMerged ==
    /\ NonDryMerge /\ pc = "done" /\ HasCmd(issued, "merge", TRUE)
    /\ ~StagingExists /\ Tip # pre

\* C8: a non-dry-run Merge that reached the merge step returns success,
\* whatever the merge command's exit status and output.
C8_MergeStepNoError ==
    (NonDryMerge /\ Ended /\ Issued("merge")) => err = <<>>

C8_Witness ==
    /\ NonDryMerge /\ pc = "done" /\ err = <<>> /\ repo.merge.on
    /\ \E i \in 1..Len(issued) :
          issued[i].cmd = "merge" /\ ~issued[i].ok /\ Contains(issued[i].out, "a.txt")

\* the message for a merge that had nothing to do
FastForwardText == <<"Fast-forward to ">> \o args[1] \o <<"\n">>

\* C9 as first stated: in a non-dry-run Merge, when the merge output contains
\* "up to date" the engine prints "Fast-forward to <targetRef>" in place of
\* the output and the staging branch is deleted when the invocation ends;
\* any other output is printed unchanged.
C9_Original ==
    (NonDryMerge /\ Ended) =>
        \A i \in 1..Len(issued) :
            issued[i].cmd = "merge" =>
                IF Contains(issued[i].out, "up to date")
                THEN printed[1] = FastForwardText /\ ~StagingExists
                ELSE printed[1] = issued[i].out

\* C9: in a non-dry-run Merge, when the merge output contains "up to date"
\* the engine prints "Fast-forward to <targetRef>" in place of the output,
\* and the staging branch is deleted when the invocation ends if the merge
\* command exited with status 0 (as it does when git reports "Already up to
\* date."); any other output is printed unchanged.
C9_FastForwardMessage ==
    (NonDryMerge /\ Ended) =>
        \A i \in 1..Len(issued) :
            issued[i].cmd = "merge" =>
                IF Contains(issued[i].out, "up to date")
                THEN /\ printed[1] = FastForwardText
                     /\ issued[i].ok => ~StagingExists
                     /\ issued[i].out = <<"Already ", "up to date", ".", "\n">> => ~StagingExists
                ELSE printed[1] = issued[i].out

C9_Witness ==
    /\ NonDryMerge /\ pc = "done" /\ ~StagingExists
    /\ printed = <<FastForwardText>>
    /\ \E i \in 1..Len(issued) :
          issued[i].cmd = "merge" /\ issued[i].out = <<"Already ", "up to date", ".", "\n">>

\* C10: an Abort that got past the preconditions returns an error exactly
\* when the hard reset to the staging branch failed; a failed merge --abort
\* or a failed deletion gives no error, and after a failed reset no deletion
\* is issued.
C10_AbortErrorIffResetFails ==
    (AbortMode /\ Ended /\ HasCmd(issued, "rev-parse", TRUE) /\ ~ForbiddenName(cur)) =>
        /\ err # <<>> <=> HasCmd(issued, "reset", FALSE)
        /\ HasCmd(issued, "reset", FALSE) => ~Issued("branch-delete")
        /\ HasCmd(issued, "reset", TRUE) => Issued("branch-delete")
        /\ Issued("merge-abort") /\ Issued("reset")

C10_Witness ==
    /\ AbortMode /\ pc = "done" /\ HasCmd(issued, "merge-abort", FALSE)
    /\ HasCmd(issued, "reset", TRUE) /\ err = <<>>

C10_WitnessFailed ==
    /\ AbortMode /\ pc = "done" /\ HasCmd(issued, "reset", FALSE)
    /\ err # <<>> /\ ~Issued("branch-delete")

\* the precondition checks of runE passed: git was found and the branch read
\* is not a forbidden one
PreconditionsPassed == HasCmd(issued, "rev-parse", TRUE) /\ ~ForbiddenName(cur)

\* C11: a Continue that got past the preconditions issues merge --continue,
\* then the deletion of the staging branch of the current branch, and
\* returns success, whether merge --continue succeeded, failed on unresolved
\* conflicts or found no merge in progress.
C11_ContinueAlwaysDeletes ==
    (ContMode /\ PreconditionsPassed) =>
        /\ pc \in {"contDelete", "exit", "done"} => Issued("merge-continue")
        /\ Ended =>
              /\ err = <<>>
              /\ \E i \in 1..Len(issued) :
                    /\ issued[i].cmd = "merge-continue"
                    /\ i + 1 = Len(issued)
                    /\ issued[i + 1].cmd = "branch-delete"
                    /\ issued[i + 1].arg = <<StagingOfCur>>
              /\ ~StagingExists

C11_Witness ==
    /\ ContMode /\ pc = "done" /\ err = <<>>
    /\ HasCmd(issued, "merge-continue", FALSE)
    /\ HasCmd(issued, "branch-delete", TRUE)
    /\ repo.merge.on /\ ~repo.merge.resolved

C11_WitnessNoMerge ==
    /\ ContMode /\ pc = "done" /\ err = <<>>
    /\ HasCmd(issued, "merge-continue", FALSE)
    /\ Issued("branch-delete")
    /\ ~repo.merge.on

C11_WitnessSucceeded ==
    /\ ContMode /\ pc = "done" /\ err = <<>>
    /\ HasCmd(issued, "merge-continue", TRUE)
    /\ HasCmd(issued, "branch-delete", TRUE)

\* a dry run is between its trial merge and the merge --abort that ends it
InTrialMerge == pc = "dryAbort"

\* C12: whenever a conflicted merge started by a Merge is still unresolved,
\* the staging branch of the current branch exists and points at the commit
\* the branch had before that Merge (the commit being merged in), so that an
\* Abort can restore it.
C12_StagingKeptWhileConflicted ==
    (repo.merge.on /\ ~repo.merge.resolved /\ ~InTrialMerge) =>
        (StagingExists /\ repo.refs[StagingOfCur] = repo.merge.head)

DryMode == AnyMerge /\ dryRun

\* the trial merge of this dry run, as the log has it
TrialMerge == issued[Len(issued) - 1]

\* this dry run follows at once a dry run of the same target, both got as far
\* as the trial merge, and the histories' contents were the same for both
SecondDryRun ==
    /\ DryMode /\ pc = "done" /\ last.kind = "dry"
    /\ Issued("merge")
    /\ TrialMerge.env = last.env

\* C13: a dry run repeated at once with the same target and an unchanged
\* remote prints what the first one printed and leaves the repository as the
\* first one left it, from every state, a conflicted merge in progress
\* included.
C13_DryRunIdempotent ==
    SecondDryRun => (printed = last.printed /\ repo = before)

\* the steps of a non-dry-run Merge that must succeed for it to go on
Required == {"fetch", "status", "branch-create", "reset"}

\* C14: in a non-dry-run Merge, when the command of a required step (fetch,
\* status, staging-branch creation, hard reset) fails, no later command is
\* issued and the invocation returns an error that names the failing command;
\* in particular a failed status stops the Merge before the staging branch
\* is created or the branch reset.
C14_RequiredStepsStop ==
    NonDryMerge =>
        \A i \in 1..Len(issued) :
            (issued[i].cmd \in Required /\ ~issued[i].ok) =>
                /\ i = Len(issued)
                /\ Ended
                /\ err # <<>> /\ Contains(err, "git")

\* git's message for a ref the remote does not have, in either spelling
SaysNoSuchRef(o) ==
    \E i \in 1..Len(o) : o[i] \in {"couldn't find remote ref", "Couldn't find remote ref"}

\* the hint, as the user reads it
HintFor(t) ==
    <<"it seems that the branch '">> \o t \o <<"' should not start with '", "origin", "'", "\n">>

IsHint(chunk) == chunk # <<>> /\ chunk[1] = "it seems that the branch '"

\* C15: when the fetch fails, Merge (dry-run or not) returns an error for the
\* fetch without issuing any later command (no status, branch, reset or
\* merge), prints the fetch output, and prints the hint exactly when that
\* output says "couldn't find remote ref" in any letter case and the target
\* begins with "origin".
C15_FetchFailure ==
    AnyMerge =>
        \A i \in 1..Len(issued) :
            (issued[i].cmd = "fetch" /\ ~issued[i].ok) =>
                /\ i = Len(issued)
                /\ Ended
                /\ err # <<>> /\ err[1] = "git" /\ err[2] = " fetch -f "
                /\ printed[1] = issued[i].out
                /\ IF SaysNoSuchRef(issued[i].out) /\ args[1][1] = "origin"
                   THEN Len(printed) >= 2 /\ printed[2] = HintFor(args[1])
                   ELSE \A k \in 1..Len(printed) : ~IsHint(printed[k])

C15_Witness ==
    /\ AnyMerge /\ pc = "done" /\ HasCmd(issued, "fetch", FALSE)
    /\ Contains(printed[1], "Couldn't find remote ref")
    /\ printed[2] = HintFor(<<"origin", "-main">>)

C15_WitnessNoHint ==
    /\ AnyMerge /\ pc = "done" /\ HasCmd(issued, "fetch", FALSE)
    /\ args = << <<"topic">> >>
    /\ Contains(printed[1], "couldn't find remote ref")
    /\ Len(printed) = 2 /\ printed[2] = err

\* C16: when runE returned an error (usage, git not found, forbidden branch,
\* failed fetch, status, branch or reset) the error text is printed and the
\* process ends with a non-zero exit status; the exit status is zero only
\* when runE returned success.
C16_ExitStatus ==
    pc = "done" =>
        /\ err # <<>> => (printed[Len(printed)] = err /\ exitCode # <<0>>)
        /\ exitCode = <<0>> => err = <<>>

RemoveMode == NArgs = 0 /\ ~abort /\ ~cont /\ remove

\* git was found and the read of the current branch, if made, did not fail
ToolWorks == HasCmd(issued, "lookpath", TRUE) /\ ~HasCmd(issued, "rev-parse", FALSE)

\* the local branches whose name begins with "_mergex" when the invocation began
TempBranches == {n \in DOMAIN before.refs : n[1] = "_mergex"}

Deletions == {i \in 1..Len(issued) : issued[i].cmd = "branch-delete"}

\* C17: RemoveTempBranches returns an error only when listing the local
\* branches fails; when the listing works it issues exactly one force-delete
\* naming every local branch that begins with "_mergex", and no other, if
\* there is such a branch, and none if there is not, and returns success
\* also when that delete fails.
C17_RemoveDeletesAllTemp ==
    (RemoveMode /\ Ended /\ ToolWorks) =>
        /\ err # <<>> <=> HasCmd(issued, "branch-list", FALSE)
        /\ HasCmd(issued, "branch-list", FALSE) => Deletions = {}
        /\ err = <<>> =>
              IF TempBranches = {} THEN Deletions = {}
              ELSE /\ Cardinality(Deletions) = 1
                   /\ \A i \in Deletions : Range(issued[i].arg) = TempBranches

\* C18: RemoveTempBranches neither reads nor depends on the current branch:
\* whatever branch is checked out, master and release* included, it fails only
\* when the listing fails.
C18_RemoveIgnoresCurrentBranch ==
    (RemoveMode /\ Ended /\ ToolWorks) =>
        /\ err # <<>> => HasCmd(issued, "branch-list", FALSE)
        /\ ~Issued("rev-parse")

\* C19: a dry run whose fetch succeeded returns success whatever the trial
\* merge did, ends with merge --abort right after the trial merge, issues no
\* status, branch creation, reset or branch deletion, and leaves the local
\* branches (current and staging) and a merge that was in progress before it
\* as they were.
C19_DryRunTouchesNothing ==
    (DryMode /\ Ended /\ HasCmd(issued, "fetch", TRUE)) =>
        /\ err = <<>>
        /\ issued[Len(issued) - 1].cmd = "merge"
        /\ issued[Len(issued)].cmd = "merge-abort"
        /\ \A i \in 1..Len(issued) :
              issued[i].cmd \notin {"status", "branch-create", "reset", "branch-delete"}
        /\ repo.refs = before.refs
        /\ repo.merge = before.merge

\* a conflicted merge left by a non-dry-run Merge was in progress when the
\* invocation began
ConflictedBefore ==
    /\ before.merge.on /\ ~before.merge.resolved
    /\ StagingOfCur \in DOMAIN before.refs
    /\ before.refs[StagingOfCur] = before.merge.head

\* C20: while a conflicted merge left by a non-dry-run Merge is in progress,
\* a further non-dry-run Merge (its fetch done) fails at the check for
\* uncommitted changes, issues no branch creation and no reset, and leaves
\* the staging branch on the original pre-merge commit and the current
\* branch where it was.
C20_SecondMergeRefused ==
    (NonDryMerge /\ Ended /\ ConflictedBefore /\ HasCmd(issued, "fetch", TRUE)) =>
        /\ err # <<>> /\ err[1] = "Changes not committed before merge:"
        /\ \A i \in 1..Len(issued) : issued[i].cmd \notin {"branch-create", "reset"}
        /\ repo.refs = before.refs
        /\ repo.merge = before.merge

====
